---- MODULE Spec2Model ----
(***************************************************************************)
(* The constructor normalizers (TransportConstructor, SecurityConstructor, *)
(* MuxerConstructor) and the aggregators (makeTransports,                  *)
(* makeSecurityTransport, makeMuxer) of package config.                    *)
(*                                                                         *)
(* The package keeps no state between calls.  The variables record the     *)
(* latest call: its arguments, what it returned, and how often every       *)
(* constructor of the argument list and every user function was invoked.   *)
(* A Go panic is an outcome of its own (the field "panic").                *)
(***************************************************************************)
EXTENDS Integers, Sequences, FiniteSets, TLC

VARIABLES
    call,       \* the function called: an aggregator, a normalizer, or "none"
    h,          \* the host.Host handed to the aggregator or to the constructor
    tpts,       \* the aggregator's list argument
    invoked,    \* per entry of tpts, how often its constructor was invoked
    order,      \* the positions of tpts in the order of their invocation
    ret,        \* what the aggregator returned
    desc,       \* the normalizer's interface{} argument
    ctor,       \* what the normalizer returned
    ncalls,     \* how often the returned constructor was invoked since
    userCalls,  \* how often it called the user function (v.Call)
    last        \* what its latest invocation returned

vars == <<call, h, tpts, invoked, order, ret, desc, ctor, ncalls, userCalls, last>>

----------------------------------------------------------------------------
(* Bounds *)

\* longest list of constructors handed to an aggregator
MaxLen == 3
\* most parameters a user function declares
MaxParams == 2
\* most invocations of one normalized constructor
MaxCalls == 2

----------------------------------------------------------------------------
(* Values *)

Hosts == {"h1", "h2"}
Upgraders == {"u1"}
IDs == {"/a/1.0.0", "/b/1.0.0"}
NoID == ""

\* error values; NoErr is Go's nil error
MkErr(kind, id, pos) == [kind |-> kind, id |-> id, pos |-> pos]
NoErr == MkErr("nil", NoID, -1)
UserErrs == {MkErr("user", "e1", -1), MkErr("user", "e2", -1)}
e1 == MkErr("user", "e1", -1)
e2 == MkErr("user", "e2", -1)

\* component values (transport.Transport, security.Transport, mux.Transport)
Comp(impl, arg) == [impl |-> impl, arg |-> arg]
NilComp == Comp("nil", "-")
c1 == Comp("c1", "-")
c2 == Comp("c2", "-")
\* a value of dynamic type *insecure.Transport
Insecure == Comp("insecure.Transport", "-")

----------------------------------------------------------------------------
(* Constructors: values of the func types TptC, SecC and MuxC.             *)
(*  "const"   the closure the normalizers return for a ready instance      *)
(*  "reflect" the closure the normalizers return for a user function       *)
(*  "literal" a func literal the caller wrote against the type directly    *)

Unset == "nil"
NoFn == [in |-> <<>>, out |-> <<>>, comp |-> NilComp, err |-> NoErr]

ConstC(t) == [tag |-> "const", inst |-> t, err |-> NoErr, argConstructors |-> <<>>, v |-> NoFn]
ReflectC(argConstructors, v) ==
    [tag |-> "reflect", inst |-> NilComp, err |-> NoErr, argConstructors |-> argConstructors, v |-> v]
LiteralC(t, err) == [tag |-> "literal", inst |-> t, err |-> err, argConstructors |-> <<>>, v |-> NoFn]

Outcome(t, err, panic, user) == [t |-> t, err |-> err, panic |-> panic, user |-> user]

\* the closure of the "Already constructed?" branch: returns t, nil
CallConst(C, hh) == Outcome(C.inst, NoErr, FALSE, 0)

\* the closure built around a user function v
CallReflect(C, hh) ==
    IF \E i \in 1..Len(C.argConstructors) : C.argConstructors[i] = Unset
    THEN \* makeArg(h) on a nil func value
         Outcome(NilComp, NoErr, TRUE, 0)
    ELSE IF Len(C.v.out) = 2
         THEN IF C.v.err # NoErr
              THEN Outcome(NilComp, C.v.err, FALSE, 1)
              ELSE Outcome(C.v.comp, NoErr, FALSE, 1)
         ELSE IF Len(C.v.out) = 1
              THEN Outcome(C.v.comp, NoErr, FALSE, 1)
              ELSE Outcome(NilComp, NoErr, TRUE, 1)

\* a func literal of the caller: user code that returns (t, err)
CallLiteral(C, hh) ==
    IF C.err # NoErr THEN Outcome(NilComp, C.err, FALSE, 1)
                     ELSE Outcome(C.inst, NoErr, FALSE, 1)

\* tC(h, u), tptC.SecC(h), tptC.MuxC(h)
Call(C, hh) ==
    CASE C.tag = "const"   -> CallConst(C, hh)
      [] C.tag = "reflect" -> CallReflect(C, hh)
      [] OTHER             -> CallLiteral(C, hh)

----------------------------------------------------------------------------
(* Dispatchers: csms.SSMuxer and msmux.Transport keep a map from protocol  *)
(* ID to component.                                                        *)

BlankMuxer == <<>>
AddTransport(m, id, t) == (id :> t) @@ m
Keys(m) == DOMAIN m

\* what an aggregator returns, and what it did on the way
Agg(isNil, val, err, panic, inv, ord) ==
    [isNil |-> isNil, val |-> val, err |-> err, panic |-> panic, invoked |-> inv, order |-> ord]

Zeros(n) == [i \in 1..n |-> 0]

----------------------------------------------------------------------------
(* makeTransports *)

tcpTransport(u) == Comp("tcp", u)
wsTransport(u) == Comp("ws", u)

RECURSIVE transportsLoop(_, _, _, _, _, _)
transportsLoop(hh, u, tt, i, transports, st) ==
    IF i > Len(tt)
    THEN Agg(FALSE, transports, NoErr, FALSE, st.invoked, st.order)
    ELSE LET o == Call(tt[i], hh)
             s == [invoked |-> [st.invoked EXCEPT ![i] = @ + 1],
                   order   |-> Append(st.order, i)]
         IN IF o.panic THEN Agg(TRUE, <<>>, NoErr, TRUE, s.invoked, s.order)
            ELSE IF o.err # NoErr THEN Agg(TRUE, <<>>, o.err, FALSE, s.invoked, s.order)
            ELSE transportsLoop(hh, u, tt, i + 1, [transports EXCEPT ![i] = o.t], s)

\* mutant: a failing constructor is skipped instead of ending the call
RECURSIVE transportsLoop_continue(_, _, _, _, _, _)
transportsLoop_continue(hh, u, tt, i, transports, st) ==
    IF i > Len(tt)
    THEN Agg(FALSE, transports, NoErr, FALSE, st.invoked, st.order)
    ELSE LET o == Call(tt[i], hh)
             s == [invoked |-> [st.invoked EXCEPT ![i] = @ + 1],
                   order   |-> Append(st.order, i)]
         IN IF o.panic THEN Agg(TRUE, <<>>, NoErr, TRUE, s.invoked, s.order)
            ELSE IF o.err # NoErr THEN transportsLoop_continue(hh, u, tt, i + 1, transports, s)
            ELSE transportsLoop_continue(hh, u, tt, i + 1, [transports EXCEPT ![i] = o.t], s)

makeTransports_skipsFailures(hh, u, tt) ==
    IF Len(tt) > 0
    THEN transportsLoop_continue(hh, u, tt, 1, [i \in 1..Len(tt) |-> NilComp],
                                 [invoked |-> Zeros(Len(tt)), order |-> <<>>])
    ELSE Agg(FALSE, <<tcpTransport(u), wsTransport(u)>>, NoErr, FALSE, Zeros(0), <<>>)

makeTransports(hh, u, tt) ==
    IF Len(tt) > 0
    THEN transportsLoop(hh, u, tt, 1, [i \in 1..Len(tt) |-> NilComp],
                        [invoked |-> Zeros(Len(tt)), order |-> <<>>])
    ELSE Agg(FALSE, <<tcpTransport(u), wsTransport(u)>>, NoErr, FALSE, Zeros(0), <<>>)

----------------------------------------------------------------------------
(* makeSecurityTransport *)

secioID == "/secio/1.0.0"
secioTransport(hh) == Comp("secio", hh)

\* the first loop over tpts: looks every ID up in transportSet, and never
\* stores one in it
RECURSIVE duplicateID(_, _, _)
duplicateID(tt, i, transportSet) ==
    IF i > Len(tt) THEN NoID
    ELSE IF tt[i].ID \in transportSet THEN tt[i].ID
    ELSE duplicateID(tt, i + 1, transportSet)

\* mutant: the type assertion on *insecure.Transport never succeeds
isInsecure_never(t) == FALSE

isInsecure(t) == t.impl = "insecure.Transport"

RECURSIVE securityLoop(_, _, _, _, _)
securityLoop(hh, tt, i, secMuxer, st) ==
    IF i > Len(tt)
    THEN Agg(FALSE, secMuxer, NoErr, FALSE, st.invoked, st.order)
    ELSE LET o == Call(tt[i].C, hh)
             s == [invoked |-> [st.invoked EXCEPT ![i] = @ + 1],
                   order   |-> Append(st.order, i)]
         IN IF o.panic THEN Agg(TRUE, <<>>, NoErr, TRUE, s.invoked, s.order)
            ELSE IF o.err # NoErr THEN Agg(TRUE, <<>>, o.err, FALSE, s.invoked, s.order)
            ELSE IF isInsecure(o.t)
                 THEN Agg(TRUE, <<>>, MkErr("insecure", NoID, -1), FALSE, s.invoked, s.order)
            ELSE securityLoop(hh, tt, i + 1, AddTransport(secMuxer, tt[i].ID, o.t), s)

\* mutant: the sentinel is looked for only after every constructor has run
RECURSIVE securityLoop_unchecked(_, _, _, _, _)
securityLoop_unchecked(hh, tt, i, secMuxer, st) ==
    IF i > Len(tt)
    THEN Agg(FALSE, secMuxer, NoErr, FALSE, st.invoked, st.order)
    ELSE LET o == Call(tt[i].C, hh)
             s == [invoked |-> [st.invoked EXCEPT ![i] = @ + 1],
                   order   |-> Append(st.order, i)]
         IN IF o.panic THEN Agg(TRUE, <<>>, NoErr, TRUE, s.invoked, s.order)
            ELSE IF o.err # NoErr THEN Agg(TRUE, <<>>, o.err, FALSE, s.invoked, s.order)
            ELSE securityLoop_unchecked(hh, tt, i + 1, AddTransport(secMuxer, tt[i].ID, o.t), s)

makeSecurityTransport_checkAfter(hh, tt) ==
    IF Len(tt) > 0
    THEN LET r == securityLoop_unchecked(hh, tt, 1, BlankMuxer,
                                         [invoked |-> Zeros(Len(tt)), order |-> <<>>])
         IN IF ~r.isNil /\ \E k \in Keys(r.val) : r.val[k].impl = "insecure.Transport"
            THEN Agg(TRUE, <<>>, MkErr("insecure", NoID, -1), FALSE, r.invoked, r.order)
            ELSE r
    ELSE Agg(FALSE, AddTransport(BlankMuxer, secioID, secioTransport(hh)),
             NoErr, FALSE, Zeros(0), <<>>)

makeSecurityTransport(hh, tt) ==
    IF Len(tt) > 0
    THEN LET dup == duplicateID(tt, 1, {})
         IN IF dup # NoID
            THEN Agg(TRUE, <<>>, MkErr("duplicate", dup, -1), FALSE, Zeros(Len(tt)), <<>>)
            ELSE securityLoop(hh, tt, 1, BlankMuxer,
                              [invoked |-> Zeros(Len(tt)), order |-> <<>>])
    ELSE Agg(FALSE, AddTransport(BlankMuxer, secioID, secioTransport(hh)),
             NoErr, FALSE, Zeros(0), <<>>)

----------------------------------------------------------------------------
(* makeMuxer *)

yamuxID == "/yamux/1.0.0"
mplexID == "/mplex/6.3.0"
yamuxDefaultTransport == Comp("yamux", "-")
mplexDefaultTransport == Comp("mplex", "-")

RECURSIVE muxerLoop(_, _, _, _, _)
muxerLoop(hh, tt, i, muxMuxer, st) ==
    IF i > Len(tt)
    THEN Agg(FALSE, muxMuxer, NoErr, FALSE, st.invoked, st.order)
    ELSE LET o == Call(tt[i].C, hh)
             s == [invoked |-> [st.invoked EXCEPT ![i] = @ + 1],
                   order   |-> Append(st.order, i)]
         IN IF o.panic THEN Agg(TRUE, <<>>, NoErr, TRUE, s.invoked, s.order)
            ELSE IF o.err # NoErr THEN Agg(TRUE, <<>>, o.err, FALSE, s.invoked, s.order)
            ELSE muxerLoop(hh, tt, i + 1, AddTransport(muxMuxer, tt[i].ID, o.t), s)

\* mutant: the caller's constructors run for a non-empty list
muxerUsesCallerList_nonEmpty(tt) == Len(tt) > 0

\* the branch that runs the caller's constructors is taken for the empty list
muxerUsesCallerList(tt) == Len(tt) = 0

makeMuxer(hh, tt) ==
    IF muxerUsesCallerList(tt)
    THEN LET dup == duplicateID(tt, 1, {})
         IN IF dup # NoID
            THEN Agg(TRUE, <<>>, MkErr("duplicate", dup, -1), FALSE, Zeros(Len(tt)), <<>>)
            ELSE muxerLoop(hh, tt, 1, BlankMuxer,
                           [invoked |-> Zeros(Len(tt)), order |-> <<>>])
    ELSE Agg(FALSE,
             AddTransport(AddTransport(BlankMuxer, yamuxID, yamuxDefaultTransport),
                          mplexID, mplexDefaultTransport),
             NoErr, FALSE, Zeros(Len(tt)), <<>>)

----------------------------------------------------------------------------
(* reflect.Type values.  NilType is the nil reflect.Type.                  *)

NilType == "<nil>"

Kind(T) ==
    CASE T \in {"error", "host.Host", "inet.Network", "mux.Transport", "security.Transport",
                "pnet.Protector", "crypto.PrivKey", "crypto.PubKey", "pstore.Peerstore",
                "transport.Transport", "interface{}", "io.Writer"} -> "Interface"
      [] T \in {"*tptu.Upgrader", "*filter.Filters"} -> "Ptr"
      [] T = "peer.ID" -> "String"
      [] OTHER -> "Int"

\* reflect.TypeOf((T)(nil)): the dynamic type of the argument.  A nil value
\* converted to an interface type is a nil interface value, which has no
\* dynamic type, and TypeOf returns the nil Type for it; a nil pointer keeps
\* its pointer type.
TypeOfNil(T) == IF Kind(T) = "Interface" THEN NilType ELSE T

errorType     == TypeOfNil("error")
upgraderType  == TypeOfNil("*tptu.Upgrader")
hostType      == TypeOfNil("host.Host")
networkType   == TypeOfNil("inet.Network")
muxType       == TypeOfNil("mux.Transport")
securityType  == TypeOfNil("security.Transport")
protectorType == TypeOfNil("pnet.Protector")
filtersType   == TypeOfNil("*filter.Filters")
\* reflect.TypeOf((peer.ID)("")): a non-nil value of a string type
peerIDType    == "peer.ID"
privKeyType   == TypeOfNil("crypto.PrivKey")
pubKeyType    == TypeOfNil("crypto.PubKey")
pstoreType    == TypeOfNil("pstore.Peerstore")
transportType == TypeOfNil("transport.Transport")

\* the method sets: whether the non-nil type T has every method of the
\* interface type u
HasMethodsOf(T, u) == u = "interface{}" \/ T = u

\* T.Implements(u): "true", "false" or "panic".  The call panics on a nil
\* receiver, on a nil u and on a u that is no interface type.
Implements(T, u) ==
    IF T = NilType \/ u = NilType \/ Kind(u) # "Interface" THEN "panic"
    ELSE IF HasMethodsOf(T, u) THEN "true" ELSE "false"

----------------------------------------------------------------------------
(* The palettes *)

ArgType(T, New) == [Type |-> T, New |-> New]

transportArgTypes ==
    << ArgType(upgraderType, "u"), ArgType(hostType, "h"), ArgType(networkType, "h.Network()"),
       ArgType(muxType, "u.Muxer"), ArgType(securityType, "u.Secure"),
       ArgType(protectorType, "u.Protector"), ArgType(filtersType, "u.Filters"),
       ArgType(peerIDType, "h.ID()"), ArgType(privKeyType, "h.Peerstore().PrivKey(h.ID())"),
       ArgType(pubKeyType, "h.Peerstore().PubKey(h.ID())"), ArgType(pstoreType, "h.Peerstore()") >>

securityArgTypes ==
    << ArgType(hostType, "h"), ArgType(networkType, "h.Network()"), ArgType(peerIDType, "h.ID()"),
       ArgType(privKeyType, "h.Peerstore().PrivKey(h.ID())"),
       ArgType(pubKeyType, "h.Peerstore().PubKey(h.ID())"), ArgType(pstoreType, "h.Peerstore()") >>

muxArgTypes ==
    << ArgType(hostType, "h"), ArgType(networkType, "h.Network()"), ArgType(peerIDType, "h.ID()"),
       ArgType(pstoreType, "h.Peerstore()") >>

----------------------------------------------------------------------------
(* The normalizers.  A descriptor is the interface{} argument: a ready      *)
(* instance, a function value v, another value, or nil.                    *)

Instance(t) == [kind |-> "instance", inst |-> t, v |-> NoFn]
Func(v)     == [kind |-> "func", inst |-> NilComp, v |-> v]
OtherValue  == [kind |-> "value", inst |-> NilComp, v |-> NoFn]
NilValue    == [kind |-> "nil", inst |-> NilComp, v |-> NoFn]

NilC == [tag |-> "nil", inst |-> NilComp, err |-> NoErr, argConstructors |-> <<>>, v |-> NoFn]

Normalized(C, err, panic) == [C |-> C, err |-> err, panic |-> panic]
Accept(C)  == Normalized(C, NoErr, FALSE)
Reject(err) == Normalized(NilC, err, FALSE)
Panics     == Normalized(NilC, NoErr, TRUE)

\* mutant: the type assertion never succeeds
isInstance_never(d) == FALSE

\* the type assertion of the "Already constructed?" branch
isInstance(d) == d.kind = "instance"

\* the inner loop over the palette for one parameter type
RECURSIVE scanPalette(_, _, _)
scanPalette(argTypes, argType, j) ==
    IF j > Len(argTypes) THEN [res |-> "none", New |-> Unset]
    ELSE LET r == Implements(argTypes[j].Type, argType)
         IN IF r = "panic" THEN [res |-> "panic", New |-> Unset]
            ELSE IF r = "true" THEN [res |-> "found", New |-> argTypes[j].New]
            ELSE scanPalette(argTypes, argType, j + 1)

\* the loop labelled outer.  Every path through the body of its first
\* iteration leaves the loop: a match sets argConstructors[0] and breaks out
\* of the labelled loop, no match returns the error.  No later iteration
\* runs, and the positions after the first keep the nil func value.
resolveArgs(argTypes, in) ==
    LET argConstructors == [k \in 1..Len(in) |-> Unset]
    IN IF Len(in) = 0 THEN [res |-> "ok", argConstructors |-> argConstructors, err |-> NoErr]
       ELSE LET s == scanPalette(argTypes, in[1], 1)
            IN CASE s.res = "panic" ->
                      [res |-> "panic", argConstructors |-> argConstructors, err |-> NoErr]
                 [] s.res = "found" ->
                      [res |-> "ok", argConstructors |-> [argConstructors EXCEPT ![1] = s.New],
                       err |-> NoErr]
                 [] OTHER ->
                      [res |-> "err", argConstructors |-> argConstructors,
                       err |-> MkErr("argument", in[1], 0)]

\* the switch on t.NumOut(): "ok", "panic" or the error returned
checkOut(out) ==
    LET first == LET r == Implements(out[1], transportType)
                 IN IF r = "panic" THEN [res |-> "panic", err |-> NoErr]
                    ELSE IF r = "false" THEN [res |-> "err", err |-> MkErr("shape", "first return value", -1)]
                    ELSE [res |-> "ok", err |-> NoErr]
    IN CASE Len(out) = 2 ->
              IF out[2] # errorType
              THEN [res |-> "err", err |-> MkErr("shape", "second return value", -1)]
              ELSE first
         [] Len(out) = 1 -> first
         [] OTHER -> [res |-> "err", err |-> MkErr("shape", "return arity", -1)]

\* the body shared by TransportConstructor, SecurityConstructor and
\* MuxerConstructor, which differ in the palette they scan
Constructor(argTypes, d) ==
    IF isInstance(d) THEN Accept(ConstC(d.inst))
    ELSE IF d.kind = "nil" THEN Panics    \* Type() of the zero reflect.Value
    ELSE IF d.kind # "func" THEN Reject(MkErr("shape", "not a function", -1))
    ELSE LET o == checkOut(d.v.out)
         IN IF o.res = "panic" THEN Panics
            ELSE IF o.res = "err" THEN Reject(o.err)
            ELSE LET a == resolveArgs(argTypes, d.v.in)
                 IN IF a.res = "panic" THEN Panics
                    ELSE IF a.res = "err" THEN Reject(a.err)
                    ELSE Accept(ReflectC(a.argConstructors, d.v))

TransportConstructor(d) == Constructor(transportArgTypes, d)
SecurityConstructor(d)  == Constructor(securityArgTypes, d)
MuxerConstructor(d)     == Constructor(muxArgTypes, d)

----------------------------------------------------------------------------
(* Arguments of the calls *)

SeqsUpTo(S, n) == UNION {[1..k -> S] : k \in 0..n}

\* MsSecC{SecC, ID} and MsMuxC{MuxC, ID}
Keyed(C, id) == [C |-> C, ID |-> id]

TptCs == {ConstC(c1), LiteralC(c1, NoErr), LiteralC(c2, NoErr),
          LiteralC(NilComp, e1), LiteralC(NilComp, e2)}
SecCs == {ConstC(c1), ConstC(Insecure), LiteralC(c2, NoErr), LiteralC(Insecure, NoErr),
          LiteralC(NilComp, e1)}
MuxCs == {ConstC(c1), LiteralC(c2, NoErr), LiteralC(NilComp, e1)}

MsSecCs == {Keyed(C, id) : C \in SecCs, id \in IDs}
MsMuxCs == {Keyed(C, id) : C \in MuxCs, id \in IDs}

ParamTypes == {"*tptu.Upgrader", "host.Host", "peer.ID", "interface{}", "io.Writer"}
OutShapes == {<<>>, <<"transport.Transport">>, <<"int">>, <<"transport.Transport", "error">>,
              <<"transport.Transport", "int">>, <<"transport.Transport", "error", "error">>}

\* only a function with an error result can fail
UserFns == {v \in {[in |-> in, out |-> o, comp |-> c1, err |-> e] :
                     in \in SeqsUpTo(ParamTypes, MaxParams), o \in OutShapes, e \in {NoErr, e1}} :
              v.err # NoErr => (Len(v.out) >= 2 /\ v.out[2] = "error")}

\* the values that pass the type assertion of each normalizer
Instances(name) == IF name = "SecurityConstructor" THEN {c1, c2, Insecure} ELSE {c1, c2}

Descriptors(name) ==
    {Instance(t) : t \in Instances(name)} \cup {OtherValue, NilValue} \cup {Func(v) : v \in UserFns}

Aggregators == {"makeTransports", "makeSecurityTransport", "makeMuxer"}
Constructors == {"TransportConstructor", "SecurityConstructor", "MuxerConstructor"}

----------------------------------------------------------------------------
(* The state machine *)

NoRet == [isNil |-> TRUE, val |-> <<>>, err |-> NoErr, panic |-> FALSE]
NoCtor == Normalized(NilC, NoErr, FALSE)
NoOutcome == Outcome(NilComp, NoErr, FALSE, 0)

Init ==
    /\ call = "none"
    /\ h = "h1"
    /\ tpts = <<>>
    /\ invoked = <<>>
    /\ order = <<>>
    /\ ret = NoRet
    /\ desc = NilValue
    /\ ctor = NoCtor
    /\ ncalls = 0
    /\ userCalls = 0
    /\ last = NoOutcome

\* an aggregator returned r for the list tt
Returned(name, hh, tt, r) ==
    /\ call' = name
    /\ h' = hh
    /\ tpts' = tt
    /\ invoked' = r.invoked
    /\ order' = r.order
    /\ ret' = [isNil |-> r.isNil, val |-> r.val, err |-> r.err, panic |-> r.panic]
    /\ UNCHANGED <<desc, ctor, ncalls, userCalls, last>>

\* every behaviour is one call of the package, made in a fresh state
MakeTransports ==
    /\ call = "none"
    /\ \E hh \in Hosts, u \in Upgraders, tt \in SeqsUpTo(TptCs, MaxLen) :
         Returned("makeTransports", hh, tt, makeTransports(hh, u, tt))

MakeSecurityTransport ==
    /\ call = "none"
    /\ \E hh \in Hosts, tt \in SeqsUpTo(MsSecCs, MaxLen) :
         Returned("makeSecurityTransport", hh, tt, makeSecurityTransport(hh, tt))

MakeMuxer ==
    /\ call = "none"
    /\ \E hh \in Hosts, tt \in SeqsUpTo(MsMuxCs, MaxLen) :
         Returned("makeMuxer", hh, tt, makeMuxer(hh, tt))

\* a normalizer returned n for the descriptor d
Normalize(name, d, n) ==
    /\ call' = name
    /\ desc' = d
    /\ ctor' = n
    /\ UNCHANGED <<h, tpts, invoked, order, ret, ncalls, userCalls, last>>

NormalizeTransport ==
    /\ call = "none"
    /\ \E d \in Descriptors("TransportConstructor") :
         Normalize("TransportConstructor", d, TransportConstructor(d))

NormalizeSecurity ==
    /\ call = "none"
    /\ \E d \in Descriptors("SecurityConstructor") :
         Normalize("SecurityConstructor", d, SecurityConstructor(d))

NormalizeMuxer ==
    /\ call = "none"
    /\ \E d \in Descriptors("MuxerConstructor") :
         Normalize("MuxerConstructor", d, MuxerConstructor(d))

\* the caller invokes the constructor a normalizer returned
Invoke ==
    /\ call \in Constructors
    /\ ~ctor.panic
    /\ ctor.err = NoErr
    /\ ncalls < MaxCalls
    /\ \E hh \in Hosts :
         LET o == Call(ctor.C, hh)
         IN /\ last' = o
            /\ ncalls' = ncalls + 1
            /\ userCalls' = userCalls + o.user
            /\ h' = hh
    /\ UNCHANGED <<call, tpts, invoked, order, ret, desc, ctor>>

Next ==
    \/ MakeTransports
    \/ MakeSecurityTransport
    \/ MakeMuxer
    \/ NormalizeTransport
    \/ NormalizeSecurity
    \/ NormalizeMuxer
    \/ Invoke

Spec == Init /\ [][Next]_vars

----------------------------------------------------------------------------
(* Vocabulary of the properties, stated on the arguments and results of    *)
(* the recorded call.                                                      *)

N == Len(tpts)

\* the constructor of entry i: the entry itself for makeTransports
Entry(i) == IF call = "makeTransports" THEN tpts[i] ELSE tpts[i].C

\* what the constructor of entry i yields whenever it is invoked
Fails(i)         == Entry(i).err # NoErr
YieldsSentinel(i) == ~Fails(i) /\ Entry(i).inst = Insecure
Succeeds(i)      == ~Fails(i) /\ Entry(i).inst # Insecure

HasDuplicateID == \E i, j \in 1..N : i # j /\ tpts[i].ID = tpts[j].ID
DuplicatedIDs  == {tpts[i].ID : i \in {k \in 1..N : \E j \in 1..N : j # k /\ tpts[j].ID = tpts[k].ID}}
NoneInvoked    == order = <<>> /\ \A i \in 1..N : invoked[i] = 0

OneTo(k) == [i \in 1..k |-> i]

\* exactly the entries 1..k were invoked, once each, in the order of the list
InvokedUpTo(k) ==
    /\ order = OneTo(k)
    /\ \A i \in 1..N : invoked[i] = IF i <= k THEN 1 ELSE 0

----------------------------------------------------------------------------
\* C1: makeSecurityTransport and makeMuxer, given a list in which two entries
\* share a protocol ID, fail with a duplicate-ID error that names such an ID,
\* and invoke no constructor of the list.
C1_DuplicateRejectedBeforeInvocation ==
    (call \in {"makeSecurityTransport", "makeMuxer"} /\ HasDuplicateID)
        => /\ ret.err.kind = "duplicate"
           /\ ret.err.id \in DuplicatedIDs
           /\ ret.isNil
           /\ NoneInvoked

\* C2: for the empty list every aggregator returns without error exactly its
\* defaults: TCP then WebSocket; the key set {secio.ID}; the key set
\* {"/yamux/1.0.0", "/mplex/6.3.0"}.
C2_EmptyListInstallsDefaults ==
    (call \in Aggregators /\ N = 0)
        => /\ ret.err = NoErr /\ ~ret.isNil /\ ~ret.panic
           /\ call = "makeTransports" =>
                 \E u \in Upgraders : ret.val = <<tcpTransport(u), wsTransport(u)>>
           /\ call = "makeSecurityTransport" => Keys(ret.val) = {"/secio/1.0.0"}
           /\ call = "makeMuxer" => Keys(ret.val) = {"/yamux/1.0.0", "/mplex/6.3.0"}

\* C3: for a non-empty list with distinct protocol IDs whose constructors all
\* succeed and yield no sentinel, every aggregator succeeds and invokes every
\* constructor of the list exactly once.
C3_EveryFactoryInvokedOnce ==
    (/\ call \in Aggregators
     /\ N > 0
     /\ call # "makeTransports" => ~HasDuplicateID
     /\ \A i \in 1..N : Succeeds(i))
        => /\ ret.err = NoErr /\ ~ret.isNil /\ ~ret.panic
           /\ \A i \in 1..N : invoked[i] = 1

----------------------------------------------------------------------------
(* Normalizers *)

PaletteOf(name) ==
    CASE name = "TransportConstructor" -> transportArgTypes
      [] name = "SecurityConstructor"  -> securityArgTypes
      [] OTHER                         -> muxArgTypes

\* the parameter types that no palette entry satisfies: io.Writer is an
\* interface that none of the types the palettes name implements
Unsatisfiable(name, T) ==
    /\ T = "io.Writer"
    /\ \A j \in 1..Len(PaletteOf(name)) : Implements(PaletteOf(name)[j].Type, T) # "true"

\* a function that returns a component, or a component and an error
WellShaped(v) == v.out \in {<<"transport.Transport">>, <<"transport.Transport", "error">>}

\* C4: a normalizer given a function one of whose parameters no palette entry
\* satisfies fails with an unresolved-parameter error that names a position
\* whose parameter is unsatisfiable, whatever the other parameters are.
C4_UnresolvedParameterNamed ==
    (/\ call \in Constructors
     /\ desc.kind = "func"
     /\ WellShaped(desc.v)
     /\ \E i \in 1..Len(desc.v.in) : Unsatisfiable(call, desc.v.in[i]))
        => /\ ~ctor.panic
           /\ ctor.err.kind = "argument"
           /\ ctor.err.pos + 1 \in 1..Len(desc.v.in)
           /\ Unsatisfiable(call, desc.v.in[ctor.err.pos + 1])

\* C9 is about the functions a normalizer accepts, and there is none: for
\* every function descriptor the switch on the results returns an error or
\* panics, since errorType and transportType are the nil reflect.Type.
NoFunctionAccepted ==
    (call \in Constructors /\ desc.kind = "func") => (ctor.panic \/ ctor.err # NoErr)

----------------------------------------------------------------------------
C6_ValidationErrorBeforeAnyInvocation ==
    (call \in Aggregators /\ ret.err.kind \in {"duplicate", "insecure"}) => NoneInvoked

\* C6 as amended: a call that ends with a duplicate-ID error has invoked no
\* constructor; a call that ends with the forbidden-component error has
\* invoked, once each and in input order, exactly the constructors up to and
\* including the first that yields the sentinel, all before it succeeded, and
\* it returns no dispatcher.
C6_ForbiddenFoundByInvocation ==
    call \in Aggregators
        => /\ ret.err.kind = "duplicate" => NoneInvoked
           /\ ret.err.kind = "insecure" =>
                 \E k \in 1..N :
                    /\ YieldsSentinel(k)
                    /\ \A i \in 1..(k - 1) : Succeeds(i)
                    /\ InvokedUpTo(k)
                    /\ ret.isNil

C6_Witness ==
    /\ call = "makeSecurityTransport"
    /\ ret.err.kind = "insecure"
    /\ N = 3
    /\ YieldsSentinel(2)
    /\ order = <<1, 2>>
    /\ invoked = <<1, 1, 0>>

----------------------------------------------------------------------------
FirstFailing == CHOOSE k \in 1..N : Fails(k) /\ \A i \in 1..(k - 1) : ~Fails(i)

\* C7: for a non-empty list makeTransports invokes the constructors in input
\* order; if constructor k is the first to fail the call returns exactly its
\* error and no list, having invoked 1..k once each and none after k;
\* otherwise the result has the length of the input and its i-th element is
\* what the i-th constructor returned.
C7_TransportsInOrder ==
    (call = "makeTransports" /\ N > 0)
        => IF \E k \in 1..N : Fails(k)
           THEN /\ ret.err = Entry(FirstFailing).err
                /\ ret.isNil /\ ret.val = <<>>
                /\ InvokedUpTo(FirstFailing)
           ELSE /\ ret.err = NoErr /\ ~ret.isNil
                /\ Len(ret.val) = N
                /\ \A i \in 1..N : ret.val[i] = Entry(i).inst
                /\ InvokedUpTo(N)

C7_WitnessFailure ==
    /\ call = "makeTransports"
    /\ N = 3
    /\ ~Fails(1) /\ Fails(2) /\ Fails(3) /\ Entry(2).err # Entry(3).err
    /\ ret.err = Entry(2).err
    /\ invoked = <<1, 1, 0>>

----------------------------------------------------------------------------
\* C8: a normalizer given a ready instance does not fail, and the constructor
\* it returns yields that instance and no error for every host and on every
\* invocation, without invoking a user function.
C8_InstancePassedThrough ==
    (call \in Constructors /\ desc.kind = "instance")
        => /\ ~ctor.panic /\ ctor.err = NoErr
           /\ ctor.C # NilC
           /\ ncalls > 0 => (last.t = desc.inst /\ last.err = NoErr /\ ~last.panic)
           /\ userCalls = 0

C8_Witness ==
    /\ call \in Constructors
    /\ desc.kind = "instance"
    /\ ncalls >= 2
    /\ h = "h2"
    /\ last.t = desc.inst

----------------------------------------------------------------------------
\* C10: makeMuxer invokes no constructor of its list: for every non-empty
\* list it returns without error a dispatcher whose keys are exactly
\* "/yamux/1.0.0" and "/mplex/6.3.0", and for the empty list one with no entry.
C10_MuxerIgnoresCallerList ==
    call = "makeMuxer"
        => /\ NoneInvoked
           /\ ret.err = NoErr /\ ~ret.isNil /\ ~ret.panic
           /\ Keys(ret.val) = IF N > 0 THEN {"/yamux/1.0.0", "/mplex/6.3.0"} ELSE {}

C10_Witness ==
    /\ call = "makeMuxer"
    /\ N >= 2
    /\ HasDuplicateID
    /\ \E i \in 1..N : Fails(i)
    /\ Keys(ret.val) = {"/yamux/1.0.0", "/mplex/6.3.0"}

====
